---- MODULE Spec2Model ----
(***************************************************************************)
(* A model of the gossip static-site generator (src/gossip.go).            *)
(*                                                                         *)
(* Path names are modelled as the strings they are in the program:         *)
(* sequences of one-character strings, so that filepath.Join, filepath.Rel *)
(* and the strings.HasPrefix / strings.Contains / strings.LastIndex tests  *)
(* of the code are computed on the characters, as the code computes them.  *)
(* The file system is a function from cleaned path names (relative to the  *)
(* working directory) to entries.                                          *)
(***************************************************************************)
EXTENDS Integers, Sequences, FiniteSets, TLC

(***************************************************************************)
(* Bounds of the model.                                                    *)
(***************************************************************************)
\* the walk is followed down to path names of this many elements
MaxDepth == 6
\* largest number of entries of source/posts in an initial state
MaxPosts == 3

(***************************************************************************)
(* Strings.                                                                *)
(***************************************************************************)
\* the characters that occur in names, in ASCII order
Alphabet ==
  << ".", "/", "0", "1", "2", "3", "4", "5", "6", "7", "8", "9", "A", "R",
     "_", "a", "b", "c", "d", "e", "f", "g", "h", "i", "l", "m", "n", "o",
     "p", "s", "t", "u", "x", "y", "z" >>

CharRank(c) == CHOOSE i \in 1..Len(Alphabet) : Alphabet[i] = c

\* byte-wise string order: the order of sort.Strings
RECURSIVE StrLess(_, _)
StrLess(a, b) ==
  IF b = <<>> THEN FALSE
  ELSE IF a = <<>> THEN TRUE
  ELSE IF Head(a) = Head(b) THEN StrLess(Tail(a), Tail(b))
  ELSE CharRank(Head(a)) < CharRank(Head(b))

\* the names of a set in sorted order
RECURSIVE SortNames(_)
SortNames(S) ==
  IF S = {} THEN <<>>
  ELSE LET m == CHOOSE x \in S : \A y \in S \ {x} : StrLess(x, y)
       IN  <<m>> \o SortNames(S \ {m})

\* strings.HasPrefix
HasPrefix(s, prefix) ==
  /\ Len(s) >= Len(prefix)
  /\ SubSeq(s, 1, Len(prefix)) = prefix

\* strings.Contains
Contains(s, substr) ==
  \E i \in 1..(Len(s) - Len(substr) + 1) :
     SubSeq(s, i, i + Len(substr) - 1) = substr

\* strings.LastIndex for a one-character separator, zero-based; -1 when absent
LastIndex(s, c) ==
  IF \E i \in 1..Len(s) : s[i] = c
  THEN (CHOOSE i \in 1..Len(s) : s[i] = c /\ \A j \in (i+1)..Len(s) : s[j] # c) - 1
  ELSE -1

\* the decimal digits of a natural number: fmt.Sprintf("%d", n)
Digit(d) == Alphabet[d + 3]

RECURSIVE Decimal(_)
Decimal(n) ==
  IF n < 10 THEN <<Digit(n)>> ELSE Decimal(n \div 10) \o <<Digit(n % 10)>>

\* fmt.Sprintf("%02d", n)
Decimal02(n) == IF n < 10 THEN <<"0">> \o Decimal(n) ELSE Decimal(n)

(***************************************************************************)
(* Path names (package path/filepath, on the paths the program builds:     *)
(* relative, without ".." elements).                                       *)
(***************************************************************************)
Dot == <<".">>
Slash == <<"/">>

\* the elements of a path name between its separators
RECURSIVE Split(_)
Split(s) ==
  IF \A i \in 1..Len(s) : s[i] # "/" THEN <<s>>
  ELSE LET k == CHOOSE i \in 1..Len(s) :
                   s[i] = "/" /\ \A j \in 1..(i-1) : s[j] # "/"
       IN  <<SubSeq(s, 1, k - 1)>> \o Split(SubSeq(s, k + 1, Len(s)))

RECURSIVE JoinElems(_)
JoinElems(elems) ==
  IF Len(elems) = 0 THEN <<>>
  ELSE IF Len(elems) = 1 THEN elems[1]
  ELSE elems[1] \o Slash \o JoinElems(Tail(elems))

\* filepath.Clean: empty and "." elements are dropped; the empty path is "."
Clean(s) ==
  LET elems == SelectSeq(Split(s), LAMBDA e : e # <<>> /\ e # Dot)
  IN  IF Len(elems) = 0 THEN Dot ELSE JoinElems(elems)

\* filepath.Join of two elements
Join(a, b) ==
  IF a = <<>> THEN Clean(b)
  ELSE IF b = <<>> THEN Clean(a)
  ELSE Clean(a \o Slash \o b)

\* filepath.Rel for a target at or below the base
Rel(basepath, targpath) ==
  LET base == Clean(basepath)
      targ == Clean(targpath)
  IN  IF targ = base THEN Dot
      ELSE IF base = Dot THEN targ
      ELSE SubSeq(targ, Len(base) + 2, Len(targ))

\* the last element of a path name: FileInfo.Name()
Base(p) == LET e == Split(Clean(p)) IN e[Len(e)]

\* the number of elements of a path name
Depth(p) == Len(Split(p))

\* the directory a path name lies in
Dir(p) ==
  LET e == Split(Clean(p))
  IN  IF Len(e) = 1 THEN Dot ELSE JoinElems(SubSeq(e, 1, Len(e) - 1))

(***************************************************************************)
(* Names the program uses.                                                 *)
(***************************************************************************)
POSTS == <<"p", "o", "s", "t", "s">>
TEMPLATES == <<"t", "e", "m", "p", "l", "a", "t", "e", "s">>
DEFAULT_HTML == <<"d", "e", "f", "a", "u", "l", "t", ".", "h", "t", "m", "l">>
DOT_HTML == <<".", "h", "t", "m", "l">>
DEFAULT_DEST == <<".", "/", "_", "s", "i", "t", "e">>

\* type Format
MARKDOWN == 0
HTML == 1

\* var formats: the extensions known, and the format of each
FormatExts == { <<"t", "x", "t">>, <<"m", "d">>, <<"h", "t", "m", "l">> }

FormatOfAlwaysMarkdown(ext) == [ok |-> TRUE, fmt |-> MARKDOWN]

\* fmt, ok := formats[ext]
FormatOf(ext) ==
  IF ext = <<"h", "t", "m", "l">> THEN [ok |-> TRUE, fmt |-> HTML]
  ELSE IF ext \in FormatExts THEN [ok |-> TRUE, fmt |-> MARKDOWN]
  ELSE [ok |-> FALSE, fmt |-> MARKDOWN]

(***************************************************************************)
(* File contents. A content is a record: the bytes of the file it was read *)
(* from, the conversion applied to them, the template they were rendered   *)
(* with (none for a file that is no post output), and whether the          *)
(* rendering ran to its end.                                               *)
(***************************************************************************)
Raw(b) == [bytes |-> b, conv |-> "none", tmpl |-> "none", part |-> "whole"]
Empty == Raw("")

\* Format.Convert: blackfriday.MarkdownBasic for MARKDOWN, the input otherwise
Convert(f, input) ==
  IF f = MARKDOWN THEN [input EXCEPT !.conv = "markdown"] ELSE input

\* template.ParseFiles on the bytes of templates/default.html
ParsesAsTemplate(data) == data.bytes \in {"tOk", "tBadExec"}

\* tmpl.Execute: what reaches the writer, and the error
Execute(tmpl, content) ==
  IF tmpl = "tBadExec"
  THEN [out |-> [content EXCEPT !.tmpl = tmpl, !.part = "cut"], err |-> TRUE]
  ELSE [out |-> [content EXCEPT !.tmpl = tmpl], err |-> FALSE]

(***************************************************************************)
(* The file system: a function from path names to entries. The path names  *)
(* the program hands to it are built by filepath.Join, which cleans them,  *)
(* so the function is keyed by cleaned path names.                         *)
(***************************************************************************)
Now == <<2024, 11>>

DirEntry(r) == [kind |-> "dir", r |-> r, data |-> Empty, mtime |-> Now]
FileEntry(data, r, mtime) ==
  [kind |-> "file", r |-> r, data |-> data, mtime |-> mtime]

Exists(f, p) == p \in DOMAIN f
IsDir(f, p) == p \in DOMAIN f /\ f[p].kind = "dir"

Put(f, p, e) == [q \in DOMAIN f \cup {p} |-> IF q = p THEN e ELSE f[q]]

\* os.Mkdir succeeds
CanMkdir(f, p) == p \notin DOMAIN f /\ IsDir(f, Dir(p))

\* os.Mkdir; the program drops its error, so a failure leaves f as it is
Mkdir(f, p, r) == IF CanMkdir(f, p) THEN Put(f, p, DirEntry(r)) ELSE f

\* os.MkdirAll, error dropped
RECURSIVE MkdirAll(_, _)
MkdirAll(f, p) ==
  IF p \in DOMAIN f THEN f
  ELSE Mkdir(MkdirAll(f, Dir(p)), p, TRUE)

\* os.Open succeeds
CanOpen(f, p) == p \in DOMAIN f /\ f[p].r

\* os.Create succeeds
CanCreate(f, p) == IsDir(f, Dir(p)) /\ ~IsDir(f, p)

\* the sorted names of the entries of directory d (readDirNames, ioutil.ReadDir)
DirNames(f, d) ==
  SortNames({ Base(q) : q \in { x \in DOMAIN f : x # Dot /\ Dir(x) = d } })

CanReadDir(f, d) == IsDir(f, d) /\ f[d].r

\* func copyFile: the file system it leaves, and whether it returns an error
copyFile(f, srcName, destName) ==
  IF ~CanOpen(f, srcName) \/ ~CanCreate(f, destName)
  THEN [fs |-> f, err |-> TRUE]
  ELSE IF f[srcName].kind = "dir"
  THEN [fs |-> Put(f, destName, FileEntry(Empty, f[srcName].r, Now)), err |-> TRUE]
  ELSE [fs |-> Put(f, destName, FileEntry(f[srcName].data, f[srcName].r, Now)),
        err |-> FALSE]

\* func exists
exists(f, p) == p \in DOMAIN f

(***************************************************************************)
(* The state.                                                              *)
(***************************************************************************)
VARIABLES
  site,       \* the Site: [Source, Dest]
  fs,         \* the file system
  walkOrder,  \* the filepath.Walk of the build: "namesFirst" reads the names
              \* of a directory before it calls walkFn on it, "fnFirst" after
  pc,         \* where Site.Generate is
  todo,       \* the path names filepath.Walk has still to visit, next first
  ok,         \* copyTree's ok
  tmpl,       \* generatePosts' tmpl: the bytes of the parsed template
  entries,    \* generatePosts' entries: the names ioutil.ReadDir returned
  idx,        \* the index in entries of the next entry of the loop
  result,     \* what Site.Generate returned, or how it ended
  fs0,        \* the file system when Generate was called
  visited,    \* the path names walkFn has been called on, in order
  madeBy,     \* for each entry the copy pass created: the path name visited
  writes,     \* the files created so far: [path, by, src], in order
  processed,  \* the names NewPostFromPath has been called on, in order
  execFailed  \* the names of the posts whose Post.Generate returned an error

vars ==
  << site, fs, walkOrder, pc, todo, ok, tmpl, entries, idx, result, fs0,
     visited, madeBy, writes, processed, execFailed >>

Running == [kind |-> "running", err |-> "", arg |-> <<>>]
Nil == [kind |-> "nil", err |-> "", arg |-> <<>>]
Error(e, a) == [kind |-> "error", err |-> e, arg |-> a]
Panic(e) == [kind |-> "panic", err |-> e, arg |-> <<>>]

\* func NewSite
NewSite(source, dest) ==
  [Source |-> IF source = <<>> THEN Dot ELSE source,
   Dest |-> IF dest = <<>> THEN DEFAULT_DEST ELSE dest]

(***************************************************************************)
(* copyTree.                                                               *)
(***************************************************************************)
FilteredByPrefixOnly(rel) == HasPrefix(rel, Dot)

\* the filter of the walk function
Filtered(rel) == HasPrefix(rel, Dot) \/ Contains(rel, <<"/", ".">>)

\* what a call of the walk function leaves: the file system, ok, what it
\* returned, and the destination entries it created
Walked(f, okv, ret, made) == [fs |-> f, ok |-> okv, ret |-> ret, made |-> made]

\* the walk function from "destName := ..." on
CopyEntry(f, okv, path, destName) ==
  IF f[path].kind = "dir"
  THEN Walked(Mkdir(f, destName, f[path].r), okv, "nil",
              IF CanMkdir(f, destName) THEN {destName} ELSE {})
  ELSE IF copyFile(f, path, destName).err
  THEN Walked(f, FALSE, "err", {})
  ELSE Walked(copyFile(f, path, destName).fs, okv, "nil", {destName})

\* the function copyTree passes to filepath.Walk, called on path with the
\* entry's info, or with the error err
WalkFn(f, okv, path, err) ==
  IF err THEN Walked(f, FALSE, "err", {})
  ELSE IF f[path].kind = "dir" /\ (Base(path) = POSTS \/ Base(path) = TEMPLATES)
  THEN Walked(f, okv, "SkipDir", {})
  ELSE IF Filtered(Rel(site.Source, path)) THEN Walked(f, okv, "nil", {})
  ELSE CopyEntry(f, okv, path, Join(site.Dest, Rel(site.Source, path)))

\* the path names of the entries of directory path, in the order of the walk
ChildPaths(f, path) ==
  [i \in 1..Len(DirNames(f, path)) |-> Join(path, DirNames(f, path)[i])]

\* filepath.Walk after its call w of the walk function on a path name: what
\* the call left, and the path names still to visit
Continue(w, children, rest) ==
  [fs |-> w.fs, ok |-> w.ok, made |-> w.made,
   todo |-> IF w.ret = "err" THEN <<>>
            ELSE IF w.ret = "SkipDir" THEN rest
            ELSE children \o rest]

\* a filepath.Walk that reads the names of a directory and then calls the
\* walk function on it, with the error of the reading if there was one
WalkNamesFirst(f, okv, path, rest) ==
  Continue(WalkFn(f, okv, path,
                  path \notin DOMAIN f \/ (IsDir(f, path) /\ ~f[path].r)),
           IF CanReadDir(f, path) THEN ChildPaths(f, path) ELSE <<>>,
           rest)

\* a filepath.Walk that calls the walk function on a directory and then
\* reads its names, calling the walk function again if the reading fails
ReadAfter(w, path, rest) ==
  IF w.ret = "nil" /\ IsDir(w.fs, path) /\ ~w.fs[path].r
  THEN [fs |-> w.fs, ok |-> FALSE, made |-> w.made, todo |-> <<>>]
  ELSE Continue(w, IF CanReadDir(w.fs, path) THEN ChildPaths(w.fs, path) ELSE <<>>,
                rest)

WalkFnFirst(f, okv, path, rest) ==
  ReadAfter(WalkFn(f, okv, path, path \notin DOMAIN f), path, rest)

WalkStep(f, okv, path, rest) ==
  IF walkOrder = "namesFirst" THEN WalkNamesFirst(f, okv, path, rest)
  ELSE WalkFnFirst(f, okv, path, rest)

PostVars == << tmpl, entries, idx, processed, execFailed >>

\* Site.Generate is called: copyTree starts the walk at s.Source
Generate ==
  /\ pc = "new"
  /\ pc' = "walk"
  /\ ok' = TRUE
  /\ todo' = << site.Source >>
  /\ UNCHANGED << site, fs, walkOrder, result, fs0, visited, madeBy, writes >>
  /\ UNCHANGED PostVars

\* filepath.Walk visits the next path name
Visit ==
  /\ pc = "walk"
  /\ todo # <<>>
  /\ Depth(Head(todo)) <= MaxDepth
  /\ \E step \in { WalkStep(fs, ok, Head(todo), Tail(todo)) } :
       /\ fs' = step.fs
       /\ ok' = step.ok
       /\ todo' = step.todo
       /\ madeBy' = [q \in DOMAIN madeBy \cup step.made |->
                       IF q \in step.made THEN Head(todo) ELSE madeBy[q]]
       /\ writes' = writes \o
            [i \in 1..Cardinality({ q \in step.made : step.fs[q].kind = "file" }) |->
               [path |-> CHOOSE q \in step.made : TRUE, by |-> "copy",
                src |-> Head(todo)]]
  /\ visited' = Append(visited, Head(todo))
  /\ UNCHANGED << site, walkOrder, pc, result, fs0 >>
  /\ UNCHANGED PostVars

\* the walk is over: copyTree returns, and Generate goes on or returns
CopyTreeReturns ==
  /\ pc = "walk"
  /\ todo = <<>>
  /\ IF ok
     THEN pc' = "posts" /\ result' = result
     ELSE pc' = "done" /\ result' = Error("error(s) copying source tree", <<>>)
  /\ UNCHANGED << site, fs, walkOrder, todo, ok, fs0, visited, madeBy, writes >>
  /\ UNCHANGED PostVars

(***************************************************************************)
(* generatePosts.                                                          *)
(***************************************************************************)
postsDir == Join(site.Source, POSTS)
tmplDir == Join(site.Source, TEMPLATES)
tmplFile == Join(Join(site.Source, TEMPLATES), DEFAULT_HTML)

\* a Post
Post(content, pubdate, destFileName, format) ==
  [res |-> Nil, content |-> content, pubdate |-> pubdate,
   destFileName |-> destFileName, format |-> format]

NoPost(res) ==
  [res |-> res, content |-> Empty, pubdate |-> Now, destFileName |-> <<>>,
   format |-> MARKDOWN]

\* func NewPostFromPath, for the file name with its last "." at index i
\* (zero-based): the post, an error, or the panic of the slice expression
\* fi.Name()[:idx] when idx is -1
PostFromName(f, path, name, i) ==
  IF ~CanOpen(f, path) \/ IsDir(f, path) THEN NoPost(Error("io", <<>>))
  ELSE IF i = -1 THEN NoPost(Panic("slice bounds out of range"))
  ELSE IF ~FormatOf(SubSeq(name, i + 2, Len(name))).ok
  THEN NoPost(Error("unknown format", SubSeq(name, i + 2, Len(name))))
  ELSE Post(f[path].data, f[path].mtime, SubSeq(name, 1, i) \o DOT_HTML,
            FormatOf(SubSeq(name, i + 2, Len(name))).fmt)

NewPostFromPath(f, path) ==
  PostFromName(f, path, Base(path), LastIndex(Base(path), "."))

\* func (p *Post) dateParts
dateParts(post) ==
  [year |-> Decimal(post.pubdate[1]), month |-> Decimal02(post.pubdate[2])]

\* dir := filepath.Join(s.Dest, year, month)
PostDir(dest, parts) == Join(Join(dest, parts.year), parts.month)

\* func (p *Post) Generate
PostGenerate(post, t) == Execute(t, Convert(post.format, post.content))

WalkVars == << todo, ok, visited, madeBy >>

\* generatePosts up to its loop: the two directories, the template, the listing
GeneratePosts ==
  /\ pc = "posts"
  /\ IF ~exists(fs, postsDir) \/ ~exists(fs, tmplDir)
     THEN /\ pc' = "done"
          /\ result' = Error("posts and templates directories must exist", <<>>)
          /\ UNCHANGED << tmpl, entries >>
     ELSE IF ~CanOpen(fs, tmplFile) \/ IsDir(fs, tmplFile)
             \/ ~ParsesAsTemplate(fs[tmplFile].data)
     THEN /\ pc' = "done"
          /\ result' = Panic("template.Must")
          /\ UNCHANGED << tmpl, entries >>
     ELSE IF ~CanReadDir(fs, postsDir)
     THEN /\ pc' = "done"
          /\ result' = Error("io", <<>>)
          /\ tmpl' = fs[tmplFile].data.bytes
          /\ UNCHANGED entries
     ELSE /\ pc' = "loop"
          /\ result' = result
          /\ tmpl' = fs[tmplFile].data.bytes
          /\ entries' = DirNames(fs, postsDir)
  /\ UNCHANGED << site, fs, walkOrder, idx, fs0, writes, processed, execFailed >>
  /\ UNCHANGED WalkVars

\* the loop's body for a post that was made: the directory, the file, the
\* rendering
WritePost(name, path, post, g, out, gen) ==
  IF ~CanCreate(g, out)
  THEN /\ pc' = "done"
       /\ result' = Error("io", <<>>)
       /\ fs' = g
       /\ UNCHANGED << writes, execFailed >>
  ELSE /\ fs' = Put(g, out, FileEntry(gen.out, TRUE, Now))
       /\ writes' = Append(writes, [path |-> out, by |-> "post", src |-> path])
       /\ execFailed' = IF gen.err THEN Append(execFailed, name) ELSE execFailed
       /\ UNCHANGED << pc, result >>

\* one turn of the loop over entries
PostIteration ==
  /\ pc = "loop"
  /\ idx <= Len(entries)
  /\ idx' = idx + 1
  /\ IF HasPrefix(entries[idx], Dot)
     THEN UNCHANGED << fs, pc, result, writes, processed, execFailed >>
     ELSE /\ processed' = Append(processed, entries[idx])
          /\ \E post \in { NewPostFromPath(fs, Join(postsDir, entries[idx])) } :
               IF post.res # Nil
               THEN /\ pc' = "done"
                    /\ result' = post.res
                    /\ UNCHANGED << fs, writes, execFailed >>
               ELSE \E dir \in { PostDir(site.Dest, dateParts(post)) } :
                      WritePost(entries[idx], Join(postsDir, entries[idx]), post,
                                MkdirAll(fs, dir), Join(dir, post.destFileName),
                                PostGenerate(post, tmpl))
  /\ UNCHANGED << site, walkOrder, tmpl, entries, fs0 >>
  /\ UNCHANGED WalkVars

\* the loop is over: generatePosts and Generate return nil
GenerateReturns ==
  /\ pc = "loop"
  /\ idx > Len(entries)
  /\ pc' = "done"
  /\ result' = Nil
  /\ UNCHANGED << site, fs, walkOrder, tmpl, entries, idx, fs0, writes,
                  processed, execFailed >>
  /\ UNCHANGED WalkVars

(***************************************************************************)
(* The initial states: a Site made by NewSite, and a file system holding   *)
(* a source tree and, perhaps, a destination left by an earlier run.       *)
(***************************************************************************)
\* the path names of the initial file systems
SRC == <<"s", "r", "c">>
OUT == <<"o", "u", "t">>
N_A == <<"A">>
N_A_f == <<"A", "/", "f">>
N_z == <<"z">>
N_dg == <<".", "g">>
N_dg_c == <<".", "g", "/", "c">>
N_s == <<"s">>
N_s_dh == <<"s", "/", ".", "h">>
N_s_dh_f == <<"s", "/", ".", "h", "/", "f">>
N_s_posts == <<"s", "/", "p", "o", "s", "t", "s">>
N_s_posts_x == <<"s", "/", "p", "o", "s", "t", "s", "/", "x">>
N_2023 == <<"2", "0", "2", "3">>
N_2023_07 == <<"2", "0", "2", "3", "/", "0", "7">>
N_2023_07_a_html == <<"2", "0", "2", "3", "/", "0", "7", "/", "a", ".", "h", "t", "m", "l">>
N_site == <<"_", "s", "i", "t", "e">>
P_dd_md == <<".", "d", ".", "m", "d">>
P_R == <<"R">>
P_a_html == <<"a", ".", "h", "t", "m", "l">>
P_a_md == <<"a", ".", "m", "d">>
P_b_txt == <<"b", ".", "t", "x", "t">>
P_c_md == <<"c", ".", "m", "d">>
P_n_xyz == <<"n", ".", "x", "y", "z">>
P_o_b_md == <<"o", ".", "b", ".", "m", "d">>

SiteArgs ==
  { [source |-> SRC, dest |-> OUT],
    [source |-> <<>>, dest |-> <<>>] }

\* parts of a source tree, as sets of <<path name below the source, entry>>
PartA(a) ==
  IF a = "none" THEN {}
  ELSE { <<N_A, DirEntry(a # "dirUnreadable")>>,
         <<N_A_f, FileEntry(Raw("b1"), a # "fileUnreadable", Now)>>,
         <<N_z, FileEntry(Raw("b2"), TRUE, Now)>> }

PartHidden(h) ==
  IF ~h THEN {}
  ELSE { <<N_dg, DirEntry(TRUE)>>,
         <<N_dg_c, FileEntry(Raw("b1"), TRUE, Now)>>,
         <<N_s, DirEntry(TRUE)>>,
         <<N_s_dh, DirEntry(TRUE)>>,
         <<N_s_dh_f, FileEntry(Raw("b2"), TRUE, Now)>>,
         <<N_s_posts, DirEntry(TRUE)>>,
         <<N_s_posts_x, FileEntry(Raw("b1"), TRUE, Now)>> }

PartDated(d) ==
  IF ~d THEN {}
  ELSE { <<N_2023, DirEntry(TRUE)>>,
         <<N_2023_07, DirEntry(TRUE)>>,
         <<N_2023_07_a_html, FileEntry(Raw("b2"), TRUE, Now)>> }

\* the entries source/posts may hold
PostFiles ==
  { <<P_dd_md, FileEntry(Raw("b1"), TRUE, <<2023, 7>>)>>,
    <<P_R, FileEntry(Raw("b1"), TRUE, <<2023, 7>>)>>,
    <<P_a_html, FileEntry(Raw("b2"), TRUE, <<2023, 7>>)>>,
    <<P_a_md, FileEntry(Raw("b1"), TRUE, <<2023, 7>>)>>,
    <<P_b_txt, FileEntry(Raw("b2"), TRUE, <<2023, 11>>)>>,
    <<P_c_md, FileEntry(Raw("b1"), FALSE, <<2023, 11>>)>>,
    <<P_n_xyz, FileEntry(Raw("b1"), TRUE, <<2023, 7>>)>>,
    <<P_o_b_md, FileEntry(Raw("b2"), TRUE, <<2024, 1>>)>> }

PostsChoices ==
  { [kind |-> "absent", files |-> {}], [kind |-> "file", files |-> {}] }
  \cup { [kind |-> "dir", files |-> S] :
           S \in { T \in SUBSET PostFiles : Cardinality(T) <= MaxPosts } }

PartPosts(c) ==
  IF c.kind = "absent" THEN {}
  ELSE IF c.kind = "file" THEN { <<POSTS, FileEntry(Raw("b1"), TRUE, Now)>> }
  ELSE { <<POSTS, DirEntry(TRUE)>> }
       \cup { <<Join(POSTS, x[1]), x[2]>> : x \in c.files }

TemplatesChoices == { "absent", "file", "empty", "tOk", "tBadParse", "tBadExec" }

PartTemplates(c) ==
  IF c = "absent" THEN {}
  ELSE IF c = "file" THEN { <<TEMPLATES, FileEntry(Raw("b1"), TRUE, Now)>> }
  ELSE IF c = "empty" THEN { <<TEMPLATES, DirEntry(TRUE)>> }
  ELSE { <<TEMPLATES, DirEntry(TRUE)>>,
         <<Join(TEMPLATES, DEFAULT_HTML), FileEntry(Raw(c), TRUE, Now)>> }

\* what is at the destination before the run
PartDest(c, dest) ==
  IF c = "absent" THEN {}
  ELSE IF c = "empty" THEN { <<Clean(dest), DirEntry(TRUE)>> }
  ELSE { <<Clean(dest), DirEntry(TRUE)>>,
         <<Join(dest, N_site), DirEntry(TRUE)>> }

FsOf(pairs) ==
  [p \in { x[1] : x \in pairs } |-> (CHOOSE x \in pairs : x[1] = p)[2]]

InitialFs(s, a, h, d, posts, templates, dst) ==
  LET tree == PartA(a) \cup PartHidden(h) \cup PartDated(d)
              \cup PartPosts(posts) \cup PartTemplates(templates)
  IN  FsOf({ <<Dot, DirEntry(TRUE)>>, <<Clean(s.Source), DirEntry(TRUE)>> }
           \cup { <<Join(s.Source, x[1]), x[2]>> : x \in tree }
           \cup PartDest(dst, s.Dest))

DefaultPosts == [kind |-> "dir", files |-> { x \in PostFiles : x[1] = P_a_md }]

Init ==
  \E args \in SiteArgs,
     a \in {"none", "plain", "fileUnreadable", "dirUnreadable"},
     h \in BOOLEAN, d \in BOOLEAN,
     posts \in PostsChoices, templates \in TemplatesChoices,
     dst \in {"absent", "empty", "used"},
     order \in {"namesFirst", "fnFirst"} :
    \* either a source tree of any shape with one post and a good template,
    \* or posts and templates of any shape beside a plain tree
    /\ \/ posts = DefaultPosts /\ templates = "tOk"
       \/ a = "none" /\ ~h /\ args.source # <<>> /\ order = "namesFirst"
    /\ site = NewSite(args.source, args.dest)
    /\ fs = InitialFs(site, a, h, d, posts, templates, dst)
    /\ walkOrder = order
    /\ pc = "new"
    /\ todo = <<>>
    /\ ok = TRUE
    /\ tmpl = ""
    /\ entries = <<>>
    /\ idx = 1
    /\ result = Running
    /\ fs0 = fs
    /\ visited = <<>>
    /\ madeBy = << >>
    /\ writes = <<>>
    /\ processed = <<>>
    /\ execFailed = <<>>

Next ==
  \/ Generate
  \/ Visit
  \/ CopyTreeReturns
  \/ GeneratePosts
  \/ PostIteration
  \/ GenerateReturns

Spec == Init /\ [][Next]_vars

(***************************************************************************)
(* What the properties speak of.                                           *)
(***************************************************************************)
Range(q) == { q[i] : i \in 1..Len(q) }

DestRoot == Clean(site.Dest)

\* p is the source root or lies below it
InSource(p) ==
  \/ site.Source = Dot
  \/ p = site.Source
  \/ HasPrefix(p, site.Source \o Slash)

\* rel, a path name relative to a root, has an element that starts with "."
\* (the root itself, ".", has none)
HasHiddenElement(rel) ==
  rel # Dot /\ \E i \in 1..Len(Split(rel)) : HasPrefix(Split(rel)[i], Dot)

\* rel is, or lies below, a directory of the source named posts or templates
InReservedDir(f, rel) ==
  \E k \in 1..Len(Split(rel)) :
     /\ Split(rel)[k] \in {POSTS, TEMPLATES}
     /\ IsDir(f, Join(site.Source, JoinElems(SubSeq(Split(rel), 1, k))))

\* the entries of the source tree, when Generate was called, that the rules
\* of the copy do not skip
ToCopy ==
  { p \in DOMAIN fs0 :
      /\ InSource(p)
      /\ ~HasHiddenElement(Rel(site.Source, p))
      /\ ~InReservedDir(fs0, Rel(site.Source, p)) }

\* every directory above p, up to the working directory, can be read
RECURSIVE Readable(_, _)
Readable(f, p) ==
  IF p = Dot THEN TRUE
  ELSE IsDir(f, Dir(p)) /\ f[Dir(p)].r /\ Readable(f, Dir(p))

\* the names of the entries of source/posts when Generate was called
PostNames ==
  { Base(p) : p \in { q \in DOMAIN fs0 : q # postsDir /\ Dir(q) = postsDir } }

Extension(name) == SubSeq(name, LastIndex(name, ".") + 2, Len(name))

\* the output file of the post named name
OutputOf(name) ==
  Join(Join(Join(site.Dest, Decimal(fs0[Join(postsDir, name)].mtime[1])),
            Decimal02(fs0[Join(postsDir, name)].mtime[2])),
       SubSeq(name, 1, LastIndex(name, ".")) \o DOT_HTML)

\* the template executed on the converted bytes of the post named name
RenderingOf(name) ==
  [bytes |-> fs0[Join(postsDir, name)].data.bytes,
   conv |-> IF Extension(name) \in { <<"m", "d">>, <<"t", "x", "t">> }
            THEN "markdown" ELSE "none",
   tmpl |-> fs0[tmplFile].data.bytes,
   part |-> "whole"]

PostWrites == { i \in 1..Len(writes) : writes[i].by = "post" }

CopyReturned == pc \in {"posts", "loop", "done"}

(***************************************************************************)
(* The properties.                                                         *)
(***************************************************************************)
\* C1: the copy pass creates no destination entry whose path name below the
\* destination has an element starting with ".", and none that is, or lies
\* below, a source directory named posts or templates, at any depth
C1_NoHiddenOrReservedCopied ==
  \A p \in DOMAIN madeBy :
     /\ ~HasHiddenElement(Rel(DestRoot, p))
     /\ ~InReservedDir(fs0, Rel(DestRoot, p))

\* a walk that met hidden entries and a nested posts directory, and copied
\* the directory they lie in
C1_Witness ==
  /\ CopyReturned
  /\ Join(site.Source, N_s_dh_f) \in Range(visited)
  /\ Join(site.Source, N_dg) \in Range(visited)
  /\ Join(site.Source, N_s_posts) \in Range(visited)
  /\ Join(site.Dest, N_s) \in DOMAIN madeBy

\* C2: after Generate returned nil, every entry of source/posts whose name
\* does not start with "." has its output file at
\* dest/<4-digit year>/<2-digit month>/<name with its last extension replaced
\* by .html>, holding the template executed on the converted bytes of the post
C2_EveryPostRendered ==
  (pc = "done" /\ result = Nil) =>
    \A name \in PostNames :
       ~HasPrefix(name, Dot) =>
         /\ OutputOf(name) \in DOMAIN fs
         /\ fs[OutputOf(name)].kind = "file"
         /\ fs[OutputOf(name)].data = RenderingOf(name)
         /\ Len(Decimal(fs0[Join(postsDir, name)].mtime[1])) = 4
         /\ Len(Decimal02(fs0[Join(postsDir, name)].mtime[2])) = 2

\* C3: when the copy pass returned without error, every source directory
\* that is not skipped, the source root among them, has its destination
\* directory, and every file that is not skipped has its destination file
\* with the same bytes
C3_TreeMirrored ==
  (pc = "posts" /\ ok) =>
    \A p \in ToCopy :
       /\ Join(site.Dest, Rel(site.Source, p)) \in DOMAIN fs
       /\ fs[Join(site.Dest, Rel(site.Source, p))].kind = fs0[p].kind
       /\ fs0[p].kind = "file" =>
            fs[Join(site.Dest, Rel(site.Source, p))].data = fs0[p].data

\* C4: if source/posts or source/templates is not a directory, Generate
\* returns the missing-directory error after the copy, no post is discovered
\* and no post output is written
C4_MissingDirectoryError ==
  (pc = "done" /\ ok /\ (~IsDir(fs0, postsDir) \/ ~IsDir(fs0, tmplDir))) =>
    /\ result = Error("posts and templates directories must exist", <<>>)
    /\ processed = <<>>
    /\ PostWrites = {}

\* C5: when the loop comes to an entry whose name does not start with ".",
\* that NewPostFromPath can read, and whose extension is none of txt, md and
\* html, Generate returns the unknown-format error naming that extension; no
\* file is created for the entry, the files written before are left as they
\* are, and no later entry is processed
C5_UnknownFormatAborts ==
  [][ /\ ( /\ pc = "loop"
           /\ idx <= Len(entries)
           /\ ~HasPrefix(entries[idx], Dot)
           /\ LastIndex(entries[idx], ".") # -1
           /\ Extension(entries[idx]) \notin
                { <<"t", "x", "t">>, <<"m", "d">>, <<"h", "t", "m", "l">> }
           /\ fs[Join(postsDir, entries[idx])].kind = "file"
           /\ fs[Join(postsDir, entries[idx])].r )
         => ( /\ pc' = "done"
              /\ result' = Error("unknown format", Extension(entries[idx]))
              /\ fs' = fs
              /\ writes' = writes )
      /\ (result.err = "unknown format")
         => (fs' = fs /\ writes' = writes /\ processed' = processed)
    ]_vars

\* Generate returned the unknown-format error for n.xyz, after it wrote the
\* output of an earlier post and with a later entry left
C5_Witness ==
  /\ pc = "done"
  /\ result = Error("unknown format", <<"x", "y", "z">>)
  /\ PostWrites # {}
  /\ processed[Len(processed)] = P_n_xyz
  /\ idx <= Len(entries)

\* C6: if Post.Generate returns an error, Generate stops at that post,
\* processes no later post and returns the error
C6_RenderErrorAborts ==
  execFailed # <<>> =>
    /\ pc = "done"
    /\ result.kind = "error"
    /\ processed[Len(processed)] = execFailed[1]

\* C7: if templates/default.html is missing or does not parse, Generate
\* returns an error (it does not panic), before any post is discovered or
\* any post output is written
C7_TemplateErrorReturned ==
  (pc = "done" /\ (tmplFile \notin DOMAIN fs0
                   \/ ~ParsesAsTemplate(fs0[tmplFile].data))) =>
    /\ result.kind = "error"
    /\ processed = <<>>
    /\ PostWrites = {}

\* C8: a failure on one entry does not stop the walk: when copyTree has
\* returned, the walk function was called on every entry of the source tree
\* that is not skipped (and that lies in directories that can be read)
C8_WalkGoesOnAfterFailure ==
  CopyReturned =>
    \A p \in ToCopy : Readable(fs0, p) => p \in Range(visited)

\* C9: no destination file is written twice in one run: not by two posts,
\* and not by the copy pass and then a post
C9_OneWriterPerFile ==
  \A i, j \in 1..Len(writes) : i # j => writes[i].path # writes[j].path

====
